---- MODULE Spec2Model ----
(***************************************************************************)
(* netlify-plugin-sitemap-ping: the onSuccess hook of src/index.js.        *)
(*                                                                         *)
(* Strings are sequences of chunks.  A chunk is either the character "/"   *)
(* or a run of characters holding no "/" ("a" is such a run of unreserved  *)
(* characters, "sitemap.xml" another).  The empty sequence is the empty    *)
(* string; an absent input (undefined) and the empty string are both       *)
(* falsy for the || of JavaScript and are both the empty sequence here.    *)
(***************************************************************************)
EXTENDS Naturals, Sequences, FiniteSets

\* Longest site URL (inputs.siteUrl, process.env.URL) drawn, in chunks.
MaxLen == 2

Chars == {"/", "a"}

RECURSIVE StringsUpTo(_)
StringsUpTo(n) ==
    IF n = 0 THEN {<<>>}
    ELSE LET shorter == StringsUpTo(n - 1)
         IN  shorter \cup {Append(s, c) : s \in {x \in shorter : Len(x) = n - 1}, c \in Chars}

SiteUrls == StringsUpTo(MaxLen)

VARIABLES
    inputs,      \* the plugin inputs {siteUrl, sitemapPath}
    env,         \* process.env
    constants,   \* the build constants {PUBLISH_DIR}
    files,       \* the files that exist on disk
    pc,          \* where the run of onSuccess stands
    result,      \* "pending", "returned" or "threw": how the run ended
    siteUrl, sitemapPath, sitemapUrl, found, altIdx, targets, t,
    promise,     \* the promise httpGet returned to the current await
    log,         \* the lines given to console.log, in order
    existsCalls, \* the paths given to fs.existsSync, in order
    getCalls,    \* the urls given to https.get, in order
    responses    \* how each request completed, in order

vars == <<inputs, env, constants, files, pc, result, siteUrl, sitemapPath,
          sitemapUrl, found, altIdx, targets, t, promise, log, existsCalls,
          getCalls, responses>>

----------------------------------------------------------------------------
\* Pure helpers

\* a || b on strings
OrElse(a, b) == IF a # <<>> THEN a ELSE b

\* s.replace(/\/$/, ""): the pattern matches one "/" before the end of the string
StripTrailingSlash(s) ==
    IF Len(s) > 0 /\ s[Len(s)] = "/" THEN SubSeq(s, 1, Len(s) - 1) ELSE s

\* the precedence of line 31 reversed
EnvFirstSiteUrl(inp, e) ==
    StripTrailingSlash(OrElse(OrElse(e.URL, inp.siteUrl), <<>>))

\* (inputs.siteUrl || process.env.URL || "").replace(/\/$/, "")
ResolveSiteUrl(inp, e) ==
    StripTrailingSlash(OrElse(OrElse(inp.siteUrl, e.URL), <<>>))

DefaultSitemapPath == <<"/", "sitemap-index.xml">>

\* inputs.sitemapPath || "/sitemap-index.xml"
ResolveSitemapPath(inp) == OrElse(inp.sitemapPath, DefaultSitemapPath)

\* encodeURIComponent: "/" is reserved, the other chunks are unreserved runs
RECURSIVE EncodeURIComponent(_)
EncodeURIComponent(s) ==
    IF s = <<>> THEN <<>>
    ELSE (IF Head(s) = "/" THEN <<"%2F">> ELSE <<Head(s)>>)
         \o EncodeURIComponent(Tail(s))

\* path.normalize on paths without "." or ".." segments: runs of "/" collapse
RECURSIVE Normalize(_)
Normalize(p) ==
    IF Len(p) < 2 THEN p
    ELSE IF p[1] = "/" /\ p[2] = "/" THEN Normalize(Tail(p))
    ELSE <<Head(p)>> \o Normalize(Tail(p))

\* path.join(a, b)
PathJoin(a, b) ==
    IF a = <<>> /\ b = <<>> THEN <<".">>
    ELSE IF a = <<>> THEN Normalize(b)
    ELSE IF b = <<>> THEN Normalize(a)
    ELSE Normalize(a \o <<"/">> \o b)

\* fs.existsSync(p)
ExistsSync(p) == p \in files

\* the alternatives of line 46 in another order
ReorderedAlternatives ==
    << <<"/", "sitemap-index.xml">>, <<"/", "sitemap.xml">>, <<"/", "sitemap-0.xml">> >>

\* line 46
Alternatives ==
    << <<"/", "sitemap.xml">>, <<"/", "sitemap-index.xml">>, <<"/", "sitemap-0.xml">> >>

\* the targets of lines 64-77 in another order
ReorderedTargets(url) ==
    << [name |-> "Bing (IndexNow)",
        url  |-> <<"https://www.bing.com/ping?sitemap=">> \o EncodeURIComponent(url)],
       [name |-> "Google",
        url  |-> <<"https://www.google.com/ping?sitemap=">> \o EncodeURIComponent(url)],
       [name |-> "Yandex",
        url  |-> <<"https://yandex.com/ping?sitemap=">> \o EncodeURIComponent(url)] >>

\* lines 64-77
Targets(url) ==
    << [name |-> "Google",
        url  |-> <<"https://www.google.com/ping?sitemap=">> \o EncodeURIComponent(url)],
       [name |-> "Bing (IndexNow)",
        url  |-> <<"https://www.bing.com/ping?sitemap=">> \o EncodeURIComponent(url)],
       [name |-> "Yandex",
        url  |-> <<"https://yandex.com/ping?sitemap=">> \o EncodeURIComponent(url)] >>

\* the comparison of line 82 off by one
IsSuccessInclusive(status) == status <= 300

\* res.status < 300
IsSuccess(status) == status < 300

\* The lines of console.log
Line(kind, name, status, text, alt) ==
    [kind |-> kind, name |-> name, status |-> status, text |-> text, alt |-> alt]

NoSiteUrlLine == Line("noSiteUrl", "", 0, <<>>, <<>>)
NoSitemapLine(p) == Line("noSitemap", "", 0, p, <<>>)
AlternativeLine(p, f) == Line("alternative", "", 0, p, f)
HeaderLine == Line("header", "", 0, <<>>, <<>>)
SitemapLine(u) == Line("sitemap", "", 0, u, <<>>)
SuccessLine(n) == Line("success", n, 0, <<>>, <<>>)
StatusLine(n, s) == Line("status", n, s, <<>>, <<>>)
ErrorLine(n, m) == Line("error", n, 0, m, <<>>)
DoneLine == Line("done", "", 0, <<>>, <<>>)

\* `   ${status} ${target.name}` with status = res.status < 300 ? ok : res.status
OutcomeLine(n, status) ==
    IF IsSuccess(status) THEN SuccessLine(n) ELSE StatusLine(n, status)

----------------------------------------------------------------------------
\* The inputs of a run

PublishDirs == { <<"/", "d">> }

SitemapPaths == { <<>>, <<"/", "sitemap.xml">>, <<"/", "c.xml">> }

FilePaths == { <<"/", "sitemap.xml">>, <<"/", "sitemap-index.xml">>,
               <<"/", "sitemap-0.xml">>, <<"/", "c.xml">> }

StatusCodes == {299, 300}

ErrorMessages == { <<"ECONNREFUSED">> }

NoPromise == [state |-> "none", status |-> 0, message |-> <<>>]

Init ==
    /\ inputs \in [siteUrl : SiteUrls, sitemapPath : SitemapPaths]
    /\ env \in [URL : SiteUrls]
    /\ constants \in [PUBLISH_DIR : PublishDirs]
    /\ files \in SUBSET {PathJoin(constants.PUBLISH_DIR, p) : p \in FilePaths}
    /\ pc = "resolve"
    /\ result = "pending"
    /\ siteUrl = <<>>
    /\ sitemapPath = <<>>
    /\ sitemapUrl = <<>>
    /\ found = <<>>
    /\ altIdx = 1
    /\ targets = <<>>
    /\ t = 1
    /\ promise = NoPromise
    /\ log = <<>>
    /\ existsCalls = <<>>
    /\ getCalls = <<>>
    /\ responses = <<>>

----------------------------------------------------------------------------
\* onSuccess, step by step

\* lines 31-39 without the early return of line 35
ResolveConfigNoReturn ==
    /\ pc = "resolve"
    /\ siteUrl' = ResolveSiteUrl(inputs, env)
    /\ sitemapPath' = ResolveSitemapPath(inputs)
    /\ sitemapUrl' = siteUrl' \o sitemapPath'
    /\ log' = IF siteUrl' = <<>> THEN Append(log, NoSiteUrlLine) ELSE log
    /\ pc' = "checkSitemap"
    /\ UNCHANGED <<inputs, env, constants, files, result, found, altIdx, targets,
                   t, promise, existsCalls, getCalls, responses>>

\* lines 31-39: the site URL, the early return, the sitemap path and URL
ResolveConfig ==
    /\ pc = "resolve"
    /\ siteUrl' = ResolveSiteUrl(inputs, env)
    /\ IF siteUrl' = <<>>
       THEN /\ log' = Append(log, NoSiteUrlLine)
            /\ pc' = "Unresolved"
            /\ result' = "returned"
            /\ UNCHANGED <<sitemapPath, sitemapUrl>>
       ELSE /\ sitemapPath' = ResolveSitemapPath(inputs)
            /\ sitemapUrl' = siteUrl' \o sitemapPath'
            /\ pc' = "checkSitemap"
            /\ UNCHANGED <<log, result>>
    /\ UNCHANGED <<inputs, env, constants, files, found, altIdx, targets, t,
                   promise, existsCalls, getCalls, responses>>

\* lines 42-47: the configured path is looked up in the publish directory
CheckSitemap ==
    /\ pc = "checkSitemap"
    /\ LET localSitemap == PathJoin(constants.PUBLISH_DIR, sitemapPath)
       IN  /\ existsCalls' = Append(existsCalls, localSitemap)
           /\ IF ExistsSync(localSitemap)
              THEN /\ pc' = "announce"
                   /\ UNCHANGED <<found, altIdx>>
              ELSE /\ pc' = "probe"
                   /\ found' = <<>>
                   /\ altIdx' = 1
    /\ UNCHANGED <<inputs, env, constants, files, result, siteUrl, sitemapPath,
                   sitemapUrl, targets, t, promise, log, getCalls, responses>>

\* lines 48-53: one iteration of the loop over the alternatives
ProbeAlternative ==
    /\ pc = "probe"
    /\ LET alt == Alternatives[altIdx]
           local == PathJoin(constants.PUBLISH_DIR, alt)
       IN  /\ existsCalls' = Append(existsCalls, local)
           /\ IF ExistsSync(local)
              THEN /\ found' = alt
                   /\ pc' = "afterProbe"
                   /\ UNCHANGED altIdx
              ELSE /\ UNCHANGED found
                   /\ IF altIdx < Len(Alternatives)
                      THEN altIdx' = altIdx + 1 /\ pc' = "probe"
                      ELSE UNCHANGED altIdx /\ pc' = "afterProbe"
    /\ UNCHANGED <<inputs, env, constants, files, result, siteUrl, sitemapPath,
                   sitemapUrl, targets, t, promise, log, getCalls, responses>>

\* lines 54-58 without the return of line 56
AfterProbeNoReturn ==
    /\ pc = "afterProbe"
    /\ log' = Append(log, IF found = <<>> THEN NoSitemapLine(sitemapPath)
                          ELSE AlternativeLine(sitemapPath, found))
    /\ pc' = "announce"
    /\ UNCHANGED <<inputs, env, constants, files, result, siteUrl, sitemapPath,
                   sitemapUrl, found, altIdx, targets, t, promise, existsCalls,
                   getCalls, responses>>

\* lines 54-58: nothing found is a warning and a return, else the alternative is named
AfterProbe ==
    /\ pc = "afterProbe"
    /\ IF found = <<>>
       THEN /\ log' = Append(log, NoSitemapLine(sitemapPath))
            /\ pc' = "SitemapMissing"
            /\ result' = "returned"
       ELSE /\ log' = Append(log, AlternativeLine(sitemapPath, found))
            /\ pc' = "announce"
            /\ UNCHANGED result
    /\ UNCHANGED <<inputs, env, constants, files, siteUrl, sitemapPath, sitemapUrl,
                   found, altIdx, targets, t, promise, existsCalls, getCalls,
                   responses>>

\* lines 61-77 with the targets built from the path found on disk
AnnounceUsingFound ==
    /\ pc = "announce"
    /\ log' = log \o <<HeaderLine, SitemapLine(sitemapUrl)>>
    /\ targets' = Targets(siteUrl \o OrElse(found, sitemapPath))
    /\ t' = 1
    /\ pc' = "request"
    /\ UNCHANGED <<inputs, env, constants, files, result, siteUrl, sitemapPath,
                   sitemapUrl, found, altIdx, promise, existsCalls, getCalls,
                   responses>>

\* lines 61-77: the two header lines and the list of targets
Announce ==
    /\ pc = "announce"
    /\ log' = log \o <<HeaderLine, SitemapLine(sitemapUrl)>>
    /\ targets' = Targets(sitemapUrl)
    /\ t' = 1
    /\ pc' = "request"
    /\ UNCHANGED <<inputs, env, constants, files, result, siteUrl, sitemapPath,
                   sitemapUrl, found, altIdx, promise, existsCalls, getCalls,
                   responses>>

\* line 81, lines 17-19: httpGet(target.url) issues the request; the run awaits
HttpGet ==
    /\ pc = "request"
    /\ getCalls' = Append(getCalls, targets[t].url)
    /\ promise' = [state |-> "pending", status |-> 0, message |-> <<>>]
    /\ pc' = "await"
    /\ UNCHANGED <<inputs, env, constants, files, result, siteUrl, sitemapPath,
                   sitemapUrl, found, altIdx, targets, t, log, existsCalls,
                   responses>>

\* lines 20-23: the response ends, the promise resolves with its status
ResponseEnd ==
    /\ pc = "await"
    /\ promise.state = "pending"
    /\ \E status \in StatusCodes :
          /\ promise' = [state |-> "fulfilled", status |-> status, message |-> <<>>]
          /\ responses' = Append(responses, promise')
    /\ UNCHANGED <<inputs, env, constants, files, pc, result, siteUrl, sitemapPath,
                   sitemapUrl, found, altIdx, targets, t, log, existsCalls,
                   getCalls>>

\* line 25: the request fails, the promise rejects with the error
RequestError ==
    /\ pc = "await"
    /\ promise.state = "pending"
    /\ \E message \in ErrorMessages :
          /\ promise' = [state |-> "rejected", status |-> 0, message |-> message]
          /\ responses' = Append(responses, promise')
    /\ UNCHANGED <<inputs, env, constants, files, pc, result, siteUrl, sitemapPath,
                   sitemapUrl, found, altIdx, targets, t, log, existsCalls,
                   getCalls>>

\* line 79: the loop goes to the next target, or ends
NextTarget ==
    /\ promise' = NoPromise
    /\ IF t < Len(targets)
       THEN t' = t + 1 /\ pc' = "request"
       ELSE UNCHANGED t /\ pc' = "finish"

\* lines 82-83: the status of the response is logged
LogOutcome ==
    /\ pc = "await"
    /\ promise.state = "fulfilled"
    /\ log' = Append(log, OutcomeLine(targets[t].name, promise.status))
    /\ NextTarget
    /\ UNCHANGED <<inputs, env, constants, files, result, siteUrl, sitemapPath,
                   sitemapUrl, found, altIdx, targets, existsCalls, getCalls,
                   responses>>

\* lines 80-87 without the catch clause: the rejection leaves onSuccess
CatchErrorMissing ==
    /\ pc = "await"
    /\ promise.state = "rejected"
    /\ pc' = "Failed"
    /\ result' = "threw"
    /\ promise' = NoPromise
    /\ UNCHANGED <<inputs, env, constants, files, siteUrl, sitemapPath, sitemapUrl,
                   found, altIdx, targets, t, log, existsCalls, getCalls, responses>>

\* lines 84-86: the rejection is caught and logged
CatchError ==
    /\ pc = "await"
    /\ promise.state = "rejected"
    /\ log' = Append(log, ErrorLine(targets[t].name, promise.message))
    /\ NextTarget
    /\ UNCHANGED <<inputs, env, constants, files, result, siteUrl, sitemapPath,
                   sitemapUrl, found, altIdx, targets, existsCalls, getCalls,
                   responses>>

\* lines 89-90 without the console.log of line 89
ReturnWithoutMarker ==
    /\ pc = "finish"
    /\ pc' = "Done"
    /\ result' = "returned"
    /\ UNCHANGED <<inputs, env, constants, files, siteUrl, sitemapPath, sitemapUrl,
                   found, altIdx, targets, t, promise, log, existsCalls, getCalls,
                   responses>>

\* lines 89-90: the completion marker, and the return
Finish ==
    /\ pc = "finish"
    /\ log' = Append(log, DoneLine)
    /\ pc' = "Done"
    /\ result' = "returned"
    /\ UNCHANGED <<inputs, env, constants, files, siteUrl, sitemapPath, sitemapUrl,
                   found, altIdx, targets, t, promise, existsCalls, getCalls,
                   responses>>

Next ==
    \/ ResolveConfig
    \/ CheckSitemap
    \/ ProbeAlternative
    \/ AfterProbe
    \/ Announce
    \/ HttpGet
    \/ ResponseEnd
    \/ RequestError
    \/ LogOutcome
    \/ CatchError
    \/ Finish

Spec == Init /\ [][Next]_vars

\* The steps of onSuccess itself, and the completions of a request
Run ==
    \/ ResolveConfig \/ CheckSitemap \/ ProbeAlternative \/ AfterProbe \/ Announce
    \/ HttpGet \/ LogOutcome \/ CatchError \/ Finish

Settle == ResponseEnd \/ RequestError

\* The event loop runs onSuccess while it can step, and every request issued
\* completes: its response ends or the request fails.
LiveSpec == Spec /\ WF_vars(Run) /\ WF_vars(Settle)

----------------------------------------------------------------------------
\* What the claims speak of, stated on the inputs and on the calls observed

\* the value the precedence of the two mechanisms picks, before any stripping
ChosenSiteUrl == IF inputs.siteUrl # <<>> THEN inputs.siteUrl ELSE env.URL

EndsInSlash(s) == s # <<>> /\ s[Len(s)] = "/"

\* the site URL the run works with: the chosen value less one trailing "/"
ExpectedSiteUrl ==
    IF EndsInSlash(ChosenSiteUrl)
    THEN SubSeq(ChosenSiteUrl, 1, Len(ChosenSiteUrl) - 1)
    ELSE ChosenSiteUrl

ConfiguredPath ==
    IF inputs.sitemapPath # <<>> THEN inputs.sitemapPath
    ELSE <<"/", "sitemap-index.xml">>

FallbackPaths ==
    << <<"/", "sitemap.xml">>, <<"/", "sitemap-index.xml">>, <<"/", "sitemap-0.xml">> >>

\* the file of a leading-slash path under the publish directory
FileOf(p) == constants.PUBLISH_DIR \o p

OnDisk(p) == FileOf(p) \in files

NoSitemapOnDisk ==
    /\ ~OnDisk(ConfiguredPath)
    /\ \A i \in 1..Len(FallbackPaths) : ~OnDisk(FallbackPaths[i])

IsOutcomeLine(l) == l.kind \in {"success", "status", "error"}

OutcomeLines == SelectSeq(log, IsOutcomeLine)

IsDoneLine(l) == l.kind = "done"

TargetNames == <<"Google", "Bing (IndexNow)", "Yandex">>

PingEndpoints == << "https://www.google.com/ping?sitemap=",
                    "https://www.bing.com/ping?sitemap=",
                    "https://yandex.com/ping?sitemap=" >>

\* what the receiver of a ping reads back from the sitemap parameter
RECURSIVE DecodeURIComponent(_)
DecodeURIComponent(s) ==
    IF s = <<>> THEN <<>>
    ELSE <<(IF Head(s) = "%2F" THEN "/" ELSE Head(s))>> \o DecodeURIComponent(Tail(s))

Terminated == result # "pending"

InPhase3 == pc \in {"request", "await", "finish", "Done"}

----------------------------------------------------------------------------
\* C1: a filesystem check or a GET happens only when the resolved site URL is
\* non-empty; when neither inputs.siteUrl nor the URL of the environment is
\* given, the run ends after phase 1 with the warning logged, no existence
\* check, no request, and a normal return.
C1_NoSiteUrlNoIo ==
    /\ (existsCalls # <<>> \/ getCalls # <<>>) => ExpectedSiteUrl # <<>>
    /\ (ExpectedSiteUrl = <<>> /\ pc # "resolve") =>
          /\ pc = "Unresolved"
          /\ result = "returned"
          /\ log = <<NoSiteUrlLine>>
          /\ existsCalls = <<>>
          /\ getCalls = <<>>
    /\ (inputs.siteUrl = <<>> /\ env.URL = <<>>) => ExpectedSiteUrl = <<>>

C1_Witness ==
    /\ inputs.siteUrl = <<>>
    /\ env.URL = <<>>
    /\ pc = "Unresolved"
    /\ result = "returned"

\* C2: when neither the configured path nor any fallback exists in the publish
\* directory, a run that resolved its site URL logs the warning naming the
\* configured path, issues no request and returns normally; a request is
\* issued only when one of those paths exists.
C2_NoSitemapNoPing ==
    /\ NoSitemapOnDisk => getCalls = <<>> /\ ~InPhase3
    /\ (NoSitemapOnDisk /\ ExpectedSiteUrl # <<>> /\ pc \notin {"resolve", "checkSitemap", "probe", "afterProbe"}) =>
          /\ pc = "SitemapMissing"
          /\ result = "returned"
          /\ log = <<NoSitemapLine(ConfiguredPath)>>
    /\ pc = "SitemapMissing" => NoSitemapOnDisk
    /\ getCalls # <<>> => ~NoSitemapOnDisk

C2_Witness ==
    /\ pc = "SitemapMissing"
    /\ NoSitemapOnDisk
    /\ Len(existsCalls) = 4

\* C3: no run raises an error: a run that can take no further step has
\* returned normally in Unresolved, SitemapMissing or Done, whatever the
\* outcomes of the three requests were.
C3_NeverThrows ==
    /\ result # "threw"
    /\ (result = "returned") <=> (pc \in {"Unresolved", "SitemapMissing", "Done"})
    /\ ~(ENABLED Next) => result = "returned"

C3_Witness ==
    /\ pc = "Done"
    /\ result = "returned"
    /\ Len(responses) = 3
    /\ \A i \in 1..3 : responses[i].state = "rejected"

\* C4: in phase 3 the requests go to Google, Bing and Yandex in that order, one
\* each; a request is issued only once the outcome of the one before it is
\* logged; one outcome line is logged per target; and a run that entered
\* phase 3 ends with all three issued, whatever the earlier outcomes were.
C4_OneGetPerTargetInOrder ==
    /\ Len(getCalls) <= 3
    /\ \A i \in 1..Len(getCalls) : Head(getCalls[i]) = PingEndpoints[i]
    /\ Len(OutcomeLines) <= Len(getCalls)
    /\ Len(getCalls) <= Len(OutcomeLines) + 1
    /\ Len(responses) <= Len(getCalls)
    /\ Len(OutcomeLines) <= Len(responses)
    /\ \A i \in 1..Len(OutcomeLines) : OutcomeLines[i].name = TargetNames[i]
    /\ (Terminated /\ getCalls # <<>>) => Len(getCalls) = 3 /\ Len(OutcomeLines) = 3
    /\ (Terminated /\ \E i \in 1..Len(log) : log[i].kind = "header") => Len(getCalls) = 3
    /\ (getCalls = <<>>) => OutcomeLines = <<>>

C4_Witness ==
    /\ pc = "Done"
    /\ Len(getCalls) = 3
    /\ responses[1].state = "rejected"
    /\ responses[2].state = "fulfilled" /\ responses[2].status >= 300
    /\ Len(OutcomeLines) = 3

\* C5: every ping carries, percent-encoded, the site URL followed by the path
\* that was configured, whatever was found on disk; when the configured path
\* is absent and a fallback exists, the fallback is logged, phase 3 proceeds,
\* and the URL pinged is not the one of the fallback.
C5_PingsConfiguredPath ==
    /\ \A i \in 1..Len(getCalls) :
          /\ DecodeURIComponent(Tail(getCalls[i])) = ExpectedSiteUrl \o ConfiguredPath
          /\ \A j \in 2..Len(getCalls[i]) : getCalls[i][j] # "/"
    /\ (found # <<>> /\ pc # "probe") =>
          /\ ~OnDisk(ConfiguredPath)
          /\ OnDisk(found)
          /\ found # ConfiguredPath
          /\ pc # "SitemapMissing"
          /\ pc # "afterProbe" => log[1] = AlternativeLine(ConfiguredPath, found)
          /\ \A i \in 1..Len(getCalls) :
                DecodeURIComponent(Tail(getCalls[i])) # ExpectedSiteUrl \o found
    /\ (Terminated /\ ExpectedSiteUrl # <<>> /\ ~NoSitemapOnDisk) =>
          pc = "Done" /\ Len(getCalls) = 3

C5_Witness ==
    /\ pc = "Done"
    /\ found = <<"/", "sitemap.xml">>
    /\ ConfiguredPath = <<"/", "c.xml">>
    /\ Len(getCalls) = 3

\* C6: once the configuration is resolved, a chosen site URL ending in "/" has
\* lost that slash, one not ending in "/" is unchanged, and the site URL and
\* a leading-slash sitemap path never meet in a double slash.
C6_NoDoubleSlashAtJoin ==
    pc # "resolve" =>
       /\ EndsInSlash(ChosenSiteUrl) => siteUrl \o <<"/">> = ChosenSiteUrl
       /\ ~EndsInSlash(ChosenSiteUrl) => siteUrl = ChosenSiteUrl
       /\ (sitemapUrl # <<>> /\ Head(sitemapPath) = "/") => ~EndsInSlash(siteUrl)

\* C7, as the claim states it: the explicit input wins over the environment,
\* and the run is unresolved only when neither of the two gives a URL.
C7_UnresolvedOnlyWhenNoneGiven ==
    /\ pc # "resolve" =>
          /\ inputs.siteUrl # <<>> => siteUrl = StripTrailingSlash(inputs.siteUrl)
          /\ (inputs.siteUrl = <<>> /\ env.URL # <<>>) => siteUrl = StripTrailingSlash(env.URL)
    /\ pc = "Unresolved" => (inputs.siteUrl = <<>> /\ env.URL = <<>>)

\* C7, amended: the explicit input wins over the environment, which is used
\* only when no explicit input is given; the run is unresolved exactly when
\* the value so chosen is empty or is the single character "/".
C7_Precedence ==
    pc # "resolve" =>
       /\ siteUrl = ExpectedSiteUrl
       /\ inputs.siteUrl # <<>> =>
             siteUrl \in {inputs.siteUrl, SubSeq(inputs.siteUrl, 1, Len(inputs.siteUrl) - 1)}
       /\ (inputs.siteUrl = <<>> /\ env.URL # <<>>) =>
             siteUrl \in {env.URL, SubSeq(env.URL, 1, Len(env.URL) - 1)}
       /\ (inputs.siteUrl = <<>> /\ env.URL = <<>>) => siteUrl = <<>>
       /\ (pc = "Unresolved") <=> (ChosenSiteUrl \in {<<>>, <<"/">>})

C7_Witness ==
    /\ pc = "checkSitemap"
    /\ inputs.siteUrl = <<"a", "/">>
    /\ env.URL = <<"/", "a">>
    /\ siteUrl = <<"a">>

\* C8: the i-th request that completed is logged as exactly one of: the success
\* marker with the target's name when its status is below 300, the status
\* with the name when it is 300 or more, the name with the error message
\* when the request failed.
C8_Classification ==
    /\ Len(OutcomeLines) <= Len(responses)
    /\ \A i \in 1..Len(responses) :
          /\ responses[i].state \in {"fulfilled", "rejected"}
    /\ \A i \in 1..Len(OutcomeLines) :
          LET r == responses[i]
              l == OutcomeLines[i]
          IN  /\ (r.state = "fulfilled" /\ r.status < 300) =>
                    l = [kind |-> "success", name |-> TargetNames[i], status |-> 0,
                         text |-> <<>>, alt |-> <<>>]
              /\ (r.state = "fulfilled" /\ r.status >= 300) =>
                    l = [kind |-> "status", name |-> TargetNames[i], status |-> r.status,
                         text |-> <<>>, alt |-> <<>>]
              /\ r.state = "rejected" =>
                    l = [kind |-> "error", name |-> TargetNames[i], status |-> 0,
                         text |-> r.message, alt |-> <<>>]

C8_Witness ==
    /\ Len(OutcomeLines) = 3
    /\ responses[1].state = "fulfilled" /\ responses[1].status = 299
    /\ responses[2].state = "fulfilled" /\ responses[2].status = 300
    /\ responses[3].state = "rejected"

\* the existence checks of a run, were none of them to hit
AllChecks == <<FileOf(ConfiguredPath)>> \o [i \in 1..3 |-> FileOf(FallbackPaths[i])]

C9_ProbeOrder ==
    /\ Len(existsCalls) <= 4
    /\ existsCalls = SubSeq(AllChecks, 1, Len(existsCalls))
    /\ \A i \in 1..(Len(existsCalls) - 1) : existsCalls[i] \notin files
    /\ (found # <<>>) =>
          /\ \E i \in 1..3 :
                /\ found = FallbackPaths[i]
                /\ OnDisk(FallbackPaths[i])
                /\ \A j \in 1..(i - 1) : ~OnDisk(FallbackPaths[j])
                /\ pc # "probe" => Len(existsCalls) = i + 1
          /\ existsCalls[Len(existsCalls)] = FileOf(found)
    /\ \A k \in 1..Len(log) :
          log[k].kind = "alternative" => log[k].alt = found /\ found # <<>>
    /\ (pc \notin {"resolve", "checkSitemap", "probe", "Unresolved"} /\ found = <<>>) =>
          \/ Len(existsCalls) = 1 /\ OnDisk(ConfiguredPath)
          \/ Len(existsCalls) = 4 /\ NoSitemapOnDisk

\* C9: the fallbacks are probed only when the configured path is absent, in the
\* order /sitemap.xml, /sitemap-index.xml, /sitemap-0.xml, up to the first
\* that exists, which is the one logged; a run makes at most four existence
\* checks; and the files on disk never change.
C9_FallbackProbing == []C9_ProbeOrder /\ [][files' = files]_vars

C9_Witness ==
    /\ Len(existsCalls) = 3
    /\ found = <<"/", "sitemap-index.xml">>
    /\ pc = "request"
    /\ log[1].kind = "alternative"

C10_Marker ==
    /\ Len(SelectSeq(log, IsDoneLine)) <= 1
    /\ (pc = "Done") <=> (SelectSeq(log, IsDoneLine) # <<>>)
    /\ pc = "Done" =>
          /\ result = "returned"
          /\ log[Len(log)].kind = "done"
          /\ IsOutcomeLine(log[Len(log) - 1])
          /\ log[Len(log) - 1].name = "Yandex"
          /\ Len(OutcomeLines) = 3
    /\ pc \in {"Unresolved", "SitemapMissing"} => \A k \in 1..Len(log) : log[k].kind # "done"

====
